---- MODULE Spec2Model ----
(***************************************************************************)
(* Model of MCCI_Modbus_Serial_Protocol.h: the version codec, the          *)
(* register address translation and the StatusBits status word with its    *)
(* transmit-window computation (class McciCatena::ModbusSerialProtocol).   *)
(*                                                                         *)
(* C++ int / unsigned values are modelled as integers read as two's        *)
(* complement bit patterns (so ~x is -x-1); std::uint16_t results are      *)
(* reduced modulo 2^16; std::uint32_t values are pairs                     *)
(* <<high 16 bits, low 16 bits>>, so every number stays below 2^31.        *)
(***************************************************************************)
EXTENDS Integers, Sequences, FiniteSets

VARIABLES
    m_bits,     \* StatusBits::m_bits of the object under test
    op,         \* name of the last member function called on the object
    arg,        \* argument of that call (0 when it takes none; bool as 0/1)
    ret,        \* value returned by that call (a StatusBits is given by its bits)
    baseReg,    \* what that call stored in its out-parameter baseReg (0: it has none)
    regCount,   \* what that call stored in its out-parameter regCount (0: it has none)
    a_pc,       \* address translation: position of the caller
    address,    \* address translation: the bus address converted
    reg,        \* address translation: result of getRegister(address)
    back,       \* address translation: result of getAddress(reg)
    v_pc,       \* version codec: position of the caller
    v_in,       \* version codec: <<major, minor, patch, local>>
    v_packed,   \* version codec: result of makeVersion, <<high 16, low 16>>
    v_out       \* version codec: <<getMajor, getMinor, getPatch, getLocal>>

addrVars == <<a_pc, address, reg, back>>
verVars  == <<v_pc, v_in, v_packed, v_out>>
vars     == <<m_bits, op, arg, ret, baseReg, regCount,
              a_pc, address, reg, back, v_pc, v_in, v_packed, v_out>>

----------------------------------------------------------------------------
(* Bounds of the model.                                                    *)

\* count fields and count arguments are drawn from 0..CountEdge, the same
\* distance below the 7-bit maximum, and the value 10
CountEdge == 2
\* requested byte counts 0..MaxSmallReq are all tried
MaxSmallReq == 3
\* version components are drawn from 0..ByteEdge, 255-ByteEdge..255, 127, 128
ByteEdge == 1

----------------------------------------------------------------------------
(* Integer types.                                                          *)

ToU16(x) == x % 65536

ToU8(x) == x % 256

RECURSIVE BitAnd(_, _)
BitAnd(a, b) ==
    IF a = 0 \/ b = 0 THEN 0
    ELSE IF a = -1 THEN b
    ELSE IF b = -1 THEN a
    ELSE (a % 2) * (b % 2) + 2 * BitAnd(a \div 2, b \div 2)

RECURSIVE BitOr(_, _)
BitOr(a, b) ==
    IF a = 0 THEN b
    ELSE IF b = 0 THEN a
    ELSE IF a = -1 \/ b = -1 THEN -1
    ELSE (IF a % 2 = 1 \/ b % 2 = 1 THEN 1 ELSE 0) + 2 * BitOr(a \div 2, b \div 2)

BitNot(a) == -a - 1

----------------------------------------------------------------------------
(* Register map.                                                           *)

knRxDataReg == 63
knTxDataReg == 63

Status_u16     == 1001
RxData_vu16    == Status_u16 + 1
RxData0_u16    == RxData_vu16 + 0
RxDataLast_u16 == RxData_vu16 + knRxDataReg - 1
TxData_vu16    == 2001
TxData0_u16    == TxData_vu16 + 0
TxDataLast_u16 == TxData_vu16 + knTxDataReg - 1
TxDataByte_u16 == TxDataLast_u16 + 1

----------------------------------------------------------------------------
(* StatusBits: masks and static helpers.                                   *)

kInputAvail == 127
kTxEmpty    == 128
kTxAvail    == 32512
kConnect    == 32768

\* (mask & -(int)mask)
getLsb(mask) == BitAnd(mask, -mask)

\* v / getLsb(fieldMask), returned as std::uint16_t
getField(fieldMask, v) == ToU16(v \div getLsb(fieldMask))

\* calcField with the inserted bits not masked to the field
calcField_noMask(fieldMask, oldVal, v) ==
    ToU16(BitOr(BitAnd(oldVal, BitNot(fieldMask)), v * getLsb(fieldMask)))

\* (oldVal & ~fieldMask) | ((v * getLsb(fieldMask)) & fieldMask)
calcField(fieldMask, oldVal, v) ==
    ToU16(BitOr(BitAnd(oldVal, BitNot(fieldMask)),
                BitAnd(v * getLsb(fieldMask), fieldMask)))

\* (nChars >> 1) + (nChars & 1)
nCharsToRegs(nChars) == ToU16((nChars \div 2) + BitAnd(nChars, 1))

----------------------------------------------------------------------------
(* Inputs of the calls.                                                    *)

\* values of a 7-bit count field
CountSamples == (0..CountEdge) \cup {10} \cup {127 - k : k \in 0..CountEdge}

\* std::uint8_t arguments of setInputAvail / setTxAvail: the field values and
\* the same values with bit 7 set (128..255)
U8Samples == CountSamples \cup {n + 128 : n \in CountSamples}

\* bit images the constructor is called with: every combination of the
\* sampled counts with both values of the two flags
StatusWords ==
    {ia + 128 * te + 256 * ta + 32768 * c :
        ia \in CountSamples, te \in {0, 1}, ta \in CountSamples, c \in {0, 1}}

\* size_t nToWrite arguments of getTxRegisterAndCount
RequestSamples ==
    (0..MaxSmallReq) \cup
    {9, 10, 11, 25, 127, 128, 255, 256, 1000, 65535, 65546, 2147483647}

----------------------------------------------------------------------------
(* StatusBits: member functions, each one call on the object.              *)

idleAddr == a_pc = "idle" /\ address = 0 /\ reg = 0 /\ back = 0
idleVer  == v_pc = "idle" /\ v_in = <<0, 0, 0, 0>> /\ v_packed = <<0, 0>>
            /\ v_out = <<0, 0, 0, 0>>
idleStatus == m_bits = 0 /\ op = "idle" /\ arg = 0 /\ ret = 0
              /\ baseReg = 0 /\ regCount = 0
sbVars   == <<m_bits, op, arg, ret, baseReg, regCount>>

\* StatusBits(std::uint16_t v = 0) : m_bits(v)
Init ==
    /\ m_bits \in StatusWords
    /\ op = "StatusBits"
    /\ arg = m_bits
    /\ ret = 0
    /\ baseReg = 0
    /\ regCount = 0
    /\ idleAddr
    /\ idleVer

\* a call without out-parameters
noOutParams == baseReg' = 0 /\ regCount' = 0

\* setField returning the updated image without assigning it
setField_pure(fieldMask, v) ==
    /\ m_bits' = m_bits
    /\ ret' = calcField(fieldMask, m_bits, v)

\* this->m_bits = calcField(fieldMask, this->m_bits, v); return *this;
setField(fieldMask, v) ==
    /\ m_bits' = calcField(fieldMask, m_bits, v)
    /\ ret' = m_bits'

getBits ==
    /\ op' = "getBits"
    /\ arg' = 0
    /\ ret' = m_bits
    /\ noOutParams
    /\ UNCHANGED <<m_bits, addrVars, verVars>>

getInputAvail ==
    /\ op' = "getInputAvail"
    /\ arg' = 0
    /\ ret' = getField(kInputAvail, m_bits)
    /\ noOutParams
    /\ UNCHANGED <<m_bits, addrVars, verVars>>

getRegsToReadForInput ==
    /\ op' = "getRegsToReadForInput"
    /\ arg' = 0
    /\ ret' = nCharsToRegs(getField(kInputAvail, m_bits))
    /\ noOutParams
    /\ UNCHANGED <<m_bits, addrVars, verVars>>

setInputAvail(nAvail) ==
    /\ op' = "setInputAvail"
    /\ arg' = nAvail
    /\ setField(kInputAvail, nAvail)
    /\ noOutParams
    /\ UNCHANGED <<addrVars, verVars>>

isTxEmpty ==
    /\ op' = "isTxEmpty"
    /\ arg' = 0
    /\ ret' = (IF BitAnd(m_bits, kTxEmpty) # 0 THEN 1 ELSE 0)
    /\ noOutParams
    /\ UNCHANGED <<m_bits, addrVars, verVars>>

setTxEmpty(isEmpty) ==
    /\ op' = "setTxEmpty"
    /\ arg' = isEmpty
    /\ setField(kTxEmpty, isEmpty)
    /\ noOutParams
    /\ UNCHANGED <<addrVars, verVars>>

getTxAvail ==
    /\ op' = "getTxAvail"
    /\ arg' = 0
    /\ ret' = getField(kTxAvail, m_bits)
    /\ noOutParams
    /\ UNCHANGED <<m_bits, addrVars, verVars>>

\* getTxRegisterAndCount with nToWrite declared std::uint16_t
getTxRegisterAndCount_u16(nToWrite) ==
    LET txAvail    == getField(kTxAvail, m_bits)
        nToSend    == IF ToU16(nToWrite) < txAvail THEN ToU16(nToWrite) ELSE txAvail
        nRegs      == nCharsToRegs(nToSend)
        baseRegNum == ToU16(TxDataLast_u16 - nRegs)
    IN  /\ op' = "getTxRegisterAndCount"
        /\ arg' = nToWrite
        /\ regCount' = nRegs
        /\ baseReg' = (IF BitAnd(nRegs, 1) # 0 THEN ToU16(baseRegNum + 1)
                                                ELSE baseRegNum)
        /\ ret' = nToSend
        /\ UNCHANGED <<m_bits, addrVars, verVars>>

\* getTxRegisterAndCount without the increment for an odd register count
getTxRegisterAndCount_noOddFix(nToWrite) ==
    LET txAvail    == getField(kTxAvail, m_bits)
        nToSend    == IF nToWrite < txAvail THEN ToU16(nToWrite) ELSE txAvail
        nRegs      == nCharsToRegs(nToSend)
        baseRegNum == ToU16(TxDataLast_u16 - nRegs)
    IN  /\ op' = "getTxRegisterAndCount"
        /\ arg' = nToWrite
        /\ regCount' = nRegs
        /\ baseReg' = baseRegNum
        /\ ret' = nToSend
        /\ UNCHANGED <<m_bits, addrVars, verVars>>

getTxRegisterAndCount(nToWrite) ==
    LET txAvail    == getField(kTxAvail, m_bits)
        nToSend    == IF nToWrite < txAvail THEN ToU16(nToWrite) ELSE txAvail
        nRegs      == nCharsToRegs(nToSend)
        baseRegNum == ToU16(TxDataLast_u16 - nRegs)
    IN  /\ op' = "getTxRegisterAndCount"
        /\ arg' = nToWrite
        /\ regCount' = nRegs
        /\ baseReg' = (IF BitAnd(nRegs, 1) # 0 THEN ToU16(baseRegNum + 1)
                                                ELSE baseRegNum)
        /\ ret' = nToSend
        /\ UNCHANGED <<m_bits, addrVars, verVars>>

setTxAvail(nAvail) ==
    /\ op' = "setTxAvail"
    /\ arg' = nAvail
    /\ setField(kTxAvail, nAvail)
    /\ noOutParams
    /\ UNCHANGED <<addrVars, verVars>>

isConnected ==
    /\ op' = "isConnected"
    /\ arg' = 0
    /\ ret' = (IF BitAnd(m_bits, kConnect) # 0 THEN 1 ELSE 0)
    /\ noOutParams
    /\ UNCHANGED <<m_bits, addrVars, verVars>>

setConnected(fConnected) ==
    /\ op' = "setConnected"
    /\ arg' = fConnected
    /\ setField(kConnect, fConnected)
    /\ noOutParams
    /\ UNCHANGED <<addrVars, verVars>>

Next ==
    \/ getBits
    \/ getInputAvail
    \/ getRegsToReadForInput
    \/ \E nAvail \in U8Samples : setInputAvail(nAvail)
    \/ isTxEmpty
    \/ \E isEmpty \in {0, 1} : setTxEmpty(isEmpty)
    \/ getTxAvail
    \/ \E nToWrite \in RequestSamples : getTxRegisterAndCount(nToWrite)
    \/ \E nAvail \in U8Samples : setTxAvail(nAvail)
    \/ isConnected
    \/ \E fConnected \in {0, 1} : setConnected(fConnected)

Spec == Init /\ [][Next]_vars

----------------------------------------------------------------------------
(* Register address translation: a caller converts a bus address to a      *)
(* Register and back.                                                      *)

\* TRegister(address + 1), TRegister an enum over std::uint16_t
getRegister(addr) == ToU16(addr + 1)

\* getAddress without the origin-1 to origin-0 step
getAddress_sameOrigin(r) == ToU16(r)

\* static_cast<uint16_t>(r) - 1, returned as uint16_t
getAddress(r) == ToU16(ToU16(r) - 1)

InitAddr ==
    /\ a_pc = "start"
    /\ address \in 0..65535
    /\ reg = 0
    /\ back = 0
    /\ idleStatus
    /\ idleVer

callGetRegister ==
    /\ a_pc = "start"
    /\ reg' = getRegister(address)
    /\ a_pc' = "gotRegister"
    /\ UNCHANGED <<address, back, sbVars, verVars>>

callGetAddress ==
    /\ a_pc = "gotRegister"
    /\ back' = getAddress(reg)
    /\ a_pc' = "gotAddress"
    /\ UNCHANGED <<address, reg, sbVars, verVars>>

NextAddr ==
    \/ callGetRegister
    \/ callGetAddress

SpecAddr == InitAddr /\ [][NextAddr]_vars

----------------------------------------------------------------------------
(* Version codec: a caller packs four components and unpacks them again.   *)
(* A std::uint32_t is the pair <<bits 31..16, bits 15..0>>.                *)

\* (std::uint32_t)x of a value below 2^16
U32(x) == <<0, x>>

RECURSIVE Shl32(_, _)
Shl32(u, n) ==
    IF n = 0 THEN u
    ELSE Shl32(<<(u[1] * 2 + u[2] \div 32768) % 65536, (u[2] * 2) % 65536>>, n - 1)

RECURSIVE Shr32(_, _)
Shr32(u, n) ==
    IF n = 0 THEN u
    ELSE Shr32(<<u[1] \div 2, (u[2] \div 2) + (u[1] % 2) * 32768>>, n - 1)

Or32(u, w) == <<BitOr(u[1], w[1]), BitOr(u[2], w[2])>>

\* std::uint8_t(u)
U32ToU8(u) == ToU8(u[2])

makeVersion(major, minor, patch, local) ==
    Or32(Or32(Or32(Shl32(U32(major), 24), Shl32(U32(minor), 16)),
              Shl32(U32(patch), 8)),
         U32(local))

getMajor(v) == U32ToU8(Shr32(v, 24))

\* the minor number returned without the conversion to std::uint8_t
getMinor_wide(v) == Shr32(v, 16)[2]

getMinor(v) == U32ToU8(Shr32(v, 16))

getPatch(v) == U32ToU8(Shr32(v, 8))

getLocal(v) == U32ToU8(v)

kVersion == makeVersion(0, 1, 0, 0)

\* std::uint8_t version components
ByteSamples == (0..ByteEdge) \cup {127, 128} \cup {255 - k : k \in 0..ByteEdge}

InitVer ==
    /\ v_pc = "start"
    /\ v_in \in ByteSamples \X ByteSamples \X ByteSamples \X ByteSamples
    /\ v_packed = <<0, 0>>
    /\ v_out = <<0, 0, 0, 0>>
    /\ idleStatus
    /\ idleAddr

callMakeVersion ==
    /\ v_pc = "start"
    /\ v_packed' = makeVersion(v_in[1], v_in[2], v_in[3], v_in[4])
    /\ v_pc' = "packed"
    /\ UNCHANGED <<v_in, v_out, sbVars, addrVars>>

callGetFields ==
    /\ v_pc = "packed"
    /\ v_out' = <<getMajor(v_packed), getMinor(v_packed),
                  getPatch(v_packed), getLocal(v_packed)>>
    /\ v_pc' = "unpacked"
    /\ UNCHANGED <<v_in, v_packed, sbVars, addrVars>>

NextVer ==
    \/ callMakeVersion
    \/ callGetFields

SpecVer == InitVer /\ [][NextVer]_vars

----------------------------------------------------------------------------
(* Properties.                                                             *)

Min(x, y) == IF x <= y THEN x ELSE y

\* ceil(n / 2)
CeilHalf(n) == (n + 1) \div 2

\* what getTxAvail returns for the object
TxAvailNow == getField(kTxAvail, m_bits)

SetterOps == {"setInputAvail", "setTxEmpty", "setTxAvail", "setConnected"}

\* the lowest bit and the number of values of the field a setter writes
FieldLsb(o) ==
    CASE o = "setInputAvail" -> 1
      [] o = "setTxEmpty"    -> 128
      [] o = "setTxAvail"    -> 256
      [] o = "setConnected"  -> 32768

FieldSize(o) ==
    CASE o = "setInputAvail" -> 128
      [] o = "setTxEmpty"    -> 2
      [] o = "setTxAvail"    -> 128
      [] o = "setConnected"  -> 2

\* the value of setter o's field in word w
FieldOf(o, w) == (w \div FieldLsb(o)) % FieldSize(o)

\* word w with setter o's field replaced by v truncated to the field's width
\* and every other bit kept
WithField(o, w, v) ==
    w - FieldOf(o, w) * FieldLsb(o) + (v % FieldSize(o)) * FieldLsb(o)

\* C1: getTxRegisterAndCount returns min(getTxAvail(), nToWrite): never more
\* than getTxAvail(), never more than nToWrite, and a request above 0xFFFF is
\* not wrapped into a smaller count.
C1_CharsToSendIsMin ==
    op = "getTxRegisterAndCount" =>
        /\ ret = Min(TxAvailNow, arg)
        /\ ret <= TxAvailNow
        /\ ret <= arg
        /\ (arg >= TxAvailNow => ret = TxAvailNow)

\* C1 witness: a request of 0x1000A bytes against 127 free slots sends 127.
C1_Witness ==
    /\ op = "getTxRegisterAndCount"
    /\ arg = 65546
    /\ TxAvailNow = 127
    /\ ret = 127

\* C2: getTxRegisterAndCount sets regCount = ceil(charsToSend / 2) and
\* baseReg = TxDataLast_u16 - regCount, plus 1 exactly when regCount is odd,
\* with TxDataLast_u16 = 2063; 10 free slots and a request of 25 give
\* (10, 2059, 5), and no free slot gives (0, 2063, 0).
C2_RegisterCountAndBase ==
    /\ TxDataLast_u16 = 2063
    /\ op = "getTxRegisterAndCount" =>
        /\ regCount = CeilHalf(ret)
        /\ baseReg = TxDataLast_u16 - regCount + (IF regCount % 2 = 1 THEN 1 ELSE 0)
        /\ (TxAvailNow = 10 /\ arg = 25 => <<ret, baseReg, regCount>> = <<10, 2059, 5>>)
        /\ (TxAvailNow = 0 => <<ret, baseReg, regCount>> = <<0, 2063, 0>>)

\* C2 witness: the call with 10 free slots and 25 requested bytes.
C2_Witness ==
    /\ op = "getTxRegisterAndCount"
    /\ TxAvailNow = 10
    /\ arg = 25
    /\ <<ret, baseReg, regCount>> = <<10, 2059, 5>>

\* C3: getInputAvail returns bits 0-6 of the word and getTxAvail bits 8-14,
\* each in 0..127, whatever bit 7, bit 15 and the other count field hold.
C3_GettersReturnMaskedField ==
    /\ op = "getInputAvail" => ret = m_bits % 128 /\ ret \in 0..127
    /\ op = "getTxAvail" => ret = (m_bits \div 256) % 128 /\ ret \in 0..127

\* C4: getRegsToReadForInput returns ceil(n / 2) for n the 7-bit
\* receive-available field (bits 0-6) of the word.
C4_RegsToReadIsCeilOfField ==
    op = "getRegsToReadForInput" => ret = CeilHalf(m_bits % 128)

\* C5: a setter returns the word with every bit outside its field unchanged
\* and the field holding the argument truncated to the field's width.
C5_SetterReplacesOnlyItsField ==
    [][op' \in SetterOps => ret' = WithField(op', m_bits, arg')]_vars

\* C5 witness: setTxAvail(255) on 0x00FF returned 0x7FFF: the count is reduced
\* to 127 and bit 15 and the low byte are as before.
C5_Witness ==
    /\ op = "setTxAvail"
    /\ arg = 255
    /\ ret = 32767

\* C6 as claimed: a setter call leaves the object's own bits as they were, so
\* the object keeps the value it was constructed with.
C6_SettersArePure ==
    [][op' \in SetterOps => m_bits' = m_bits]_vars

\* C6 amended: a setter call assigns the updated word to the object and
\* returns a copy of it: afterwards the object's bits equal the returned
\* value, and they differ from the bits before the call exactly when the
\* truncated argument differs from the field's old value.
C6_SettersAssignAndReturn ==
    [][op' \in SetterOps =>
          /\ m_bits' = ret'
          /\ (m_bits' = m_bits <=> FieldOf(op', m_bits) = arg' % FieldSize(op'))]_vars

\* C6 witness: after setTxAvail(10) the object itself holds the count 10.
C6_Witness ==
    /\ op = "setTxAvail"
    /\ arg = 10
    /\ m_bits = ret
    /\ (m_bits \div 256) % 128 = 10

\* C7: for a bus address a in 0..0xFFFE, getRegister(a) is a + 1 and
\* getAddress of it is a again, one below the register id; address 0 maps
\* to id 1.
C7_AddressRoundTrip ==
    /\ a_pc \in {"gotRegister", "gotAddress"} /\ address <= 65534 =>
        /\ reg = address + 1
        /\ (address = 0 => reg = 1)
    /\ a_pc = "gotAddress" /\ address <= 65534 =>
        /\ back = address
        /\ back = reg - 1

\* C7 witness: the largest address of the claim, 0xFFFE, converted and back.
C7_Witness ==
    /\ a_pc = "gotAddress"
    /\ address = 65534
    /\ reg = 65535
    /\ back = 65534

\* C8: the packed version is major<<24 | minor<<16 | patch<<8 | local, and
\* getMajor, getMinor, getPatch, getLocal of it return the four components.
C8_VersionRoundTrip ==
    /\ v_pc \in {"packed", "unpacked"} =>
        v_packed = <<v_in[1] * 256 + v_in[2], v_in[3] * 256 + v_in[4]>>
    /\ v_pc = "unpacked" => v_out = v_in

\* C8 witness: a version with the top bit of the major number set, unpacked.
C8_Witness ==
    /\ v_pc = "unpacked"
    /\ v_in = <<255, 128, 1, 254>>
    /\ v_out = v_in

\* C9: the registers planned by getTxRegisterAndCount lie in the transmit
\* window TxData0_u16..TxDataLast_u16, so regCount is at most knTxDataReg.
C9_PlanInsideTxWindow ==
    op = "getTxRegisterAndCount" =>
        /\ baseReg \in TxData0_u16..TxDataLast_u16
        /\ regCount <= knTxDataReg
        /\ (regCount >= 1 => baseReg + regCount - 1 \in TxData0_u16..TxDataLast_u16)

\* C10: getRegsToReadForInput never returns more than knRxDataReg, so a read
\* of that many registers from RxData0_u16 ends at or before RxDataLast_u16.
C10_ReadInsideRxWindow ==
    op = "getRegsToReadForInput" =>
        /\ ret <= knRxDataReg
        /\ RxData0_u16 + ret - 1 <= RxDataLast_u16

====
